---- MODULE Spec2Model ----
(***************************************************************************)
(* A model of jackolope: the DGT electronic chessboard serial protocol     *)
(* (src/src/protocol.rs), the frame reader and receive loop                *)
(* (src/src/main.rs) and the board tracker (src/src/game.rs).              *)
(*                                                                         *)
(* Conventions.  A byte is an integer in 0..255.  Rust's Option is a       *)
(* sequence of length at most one: <<>> is None, <<x>> is Some(x).  An enum *)
(* variant is the string of its name.  Rust slices are 0-based, TLA+       *)
(* sequences 1-based: board[i] in the source is board[i + 1] here.  A      *)
(* String is the sequence of its Unicode scalar values.                    *)
(***************************************************************************)
EXTENDS Integers, Sequences, FiniteSets, TLC

VARIABLES
    harness,     \* which entry point of the program this behaviour drives
    pc,          \* position of the driven code
    stream,      \* the bytes the serial port will deliver, in order
    pos,         \* how many bytes of stream have been read
    written,     \* the bytes written to the serial port, in order
    arg,         \* the argument of the call of a pure function being driven
    game_board,  \* the GameBoard (fields board, start); <<>> before it is built
    last,        \* the latest call made and its outcome
    calls        \* how many calls the harness has made

vars == <<harness, pc, stream, pos, written, arg, game_board, last, calls>>

-----------------------------------------------------------------------------
(* Options and small helpers                                               *)

None == <<>>

Some(x) == <<x>>

\* s[from .. to) as Rust's slice s[from..to], 0-based bounds
Slice(s, from, to) == [i \in 1..(to - from) |-> s[from + i]]

\* n copies of b
Fill(n, b) == [i \in 1..n |-> b]

-----------------------------------------------------------------------------
(* protocol.rs: Command                                                    *)

Commands ==
    { "RequestClock", "RequestBoard", "EnableUpdate", "RequestUpdate",
      "RequestSerialNumber", "RequestBusAddress", "RequestTrademark",
      "RequestVersion", "RequestNiceUpdate", "RequestEEMoves", "Reset" }

\* the enum's discriminant, `self as u8`
Command_discriminant(cmd) ==
    CASE cmd = "RequestClock" -> 65
      [] cmd = "RequestBoard" -> 66
      [] cmd = "EnableUpdate" -> 67
      [] cmd = "RequestUpdate" -> 68
      [] cmd = "RequestSerialNumber" -> 69
      [] cmd = "RequestBusAddress" -> 70
      [] cmd = "RequestTrademark" -> 71
      [] cmd = "RequestVersion" -> 77
      [] cmd = "RequestNiceUpdate" -> 75
      [] cmd = "RequestEEMoves" -> 73
      [] cmd = "Reset" -> 64

Command_as_byte(cmd) == << Command_discriminant(cmd) >>

\* mutant: the arms of 0x4b and 0x4d give each other's command
Command_try_from_byte_crossed(byte) ==
    CASE byte = 65 -> Some("RequestClock")
      [] byte = 66 -> Some("RequestBoard")
      [] byte = 67 -> Some("EnableUpdate")
      [] byte = 68 -> Some("RequestUpdate")
      [] byte = 69 -> Some("RequestSerialNumber")
      [] byte = 70 -> Some("RequestBusAddress")
      [] byte = 71 -> Some("RequestTrademark")
      [] byte = 77 -> Some("RequestNiceUpdate")
      [] byte = 75 -> Some("RequestVersion")
      [] byte = 73 -> Some("RequestEEMoves")
      [] byte = 64 -> Some("Reset")
      [] OTHER -> None

Command_try_from_byte(byte) ==
    CASE byte = 65 -> Some("RequestClock")
      [] byte = 66 -> Some("RequestBoard")
      [] byte = 67 -> Some("EnableUpdate")
      [] byte = 68 -> Some("RequestUpdate")
      [] byte = 69 -> Some("RequestSerialNumber")
      [] byte = 70 -> Some("RequestBusAddress")
      [] byte = 71 -> Some("RequestTrademark")
      [] byte = 77 -> Some("RequestVersion")
      [] byte = 75 -> Some("RequestNiceUpdate")
      [] byte = 73 -> Some("RequestEEMoves")
      [] byte = 64 -> Some("Reset")
      [] OTHER -> None

-----------------------------------------------------------------------------
(* protocol.rs: Remaining, ClockStatus                                     *)

\* mutant: the byte is taken as raw binary
BcdByte_binary(b) == (16 * (b \div 16) + (b % 16)) % 256

\* u8 arithmetic: 10 * (b >> 4) + (b & 0x0f), kept to 8 bits
BcdByte(b) == (10 * (b \div 16) + (b % 16)) % 256

Remaining_from_bcd(bcd) ==
    [ hours |-> BcdByte(bcd[1]),
      minutes |-> BcdByte(bcd[2]),
      seconds |-> BcdByte(bcd[3]) ]

ClockStatus_from_byte(byte) ==
    IF byte % 2 # 0 THEN "NoCock"
    ELSE IF (byte \div 8) % 2 # 0 THEN "BlacksTurn"
    ELSE "WhitesTurn"

-----------------------------------------------------------------------------
(* protocol.rs: RawPiece                                                   *)

RawPieces ==
    { "Empty", "WhitePawn", "WhiteRook", "WhiteKnight", "WhiteBishop",
      "WhiteKing", "WhiteQueen", "BlackPawn", "BlackRook", "BlackKnight",
      "BlackBishop", "BlackKing", "BlackQueen" }

\* mutant: one code too many, 0x0d, is taken for a piece
RawPiece_try_from_byte_upto_13(byte) ==
    CASE byte = 0 -> Some("Empty")
      [] byte = 1 -> Some("WhitePawn")
      [] byte = 2 -> Some("WhiteRook")
      [] byte = 3 -> Some("WhiteKnight")
      [] byte = 4 -> Some("WhiteBishop")
      [] byte = 5 -> Some("WhiteKing")
      [] byte = 6 -> Some("WhiteQueen")
      [] byte = 7 -> Some("BlackPawn")
      [] byte = 8 -> Some("BlackRook")
      [] byte = 9 -> Some("BlackKnight")
      [] byte = 10 -> Some("BlackBishop")
      [] byte = 11 -> Some("BlackKing")
      [] byte = 12 -> Some("BlackQueen")
      [] byte = 13 -> Some("BlackQueen")
      [] OTHER -> None

RawPiece_try_from_byte(byte) ==
    CASE byte = 0 -> Some("Empty")
      [] byte = 1 -> Some("WhitePawn")
      [] byte = 2 -> Some("WhiteRook")
      [] byte = 3 -> Some("WhiteKnight")
      [] byte = 4 -> Some("WhiteBishop")
      [] byte = 5 -> Some("WhiteKing")
      [] byte = 6 -> Some("WhiteQueen")
      [] byte = 7 -> Some("BlackPawn")
      [] byte = 8 -> Some("BlackRook")
      [] byte = 9 -> Some("BlackKnight")
      [] byte = 10 -> Some("BlackBishop")
      [] byte = 11 -> Some("BlackKing")
      [] byte = 12 -> Some("BlackQueen")
      [] OTHER -> None

\* the enum's discriminant (#[repr(u8)])
RawPiece_discriminant(piece) ==
    CASE piece = "Empty" -> 0
      [] piece = "WhitePawn" -> 1
      [] piece = "WhiteRook" -> 2
      [] piece = "WhiteKnight" -> 3
      [] piece = "WhiteBishop" -> 4
      [] piece = "WhiteKing" -> 5
      [] piece = "WhiteQueen" -> 6
      [] piece = "BlackPawn" -> 7
      [] piece = "BlackRook" -> 8
      [] piece = "BlackKnight" -> 9
      [] piece = "BlackBishop" -> 10
      [] piece = "BlackKing" -> 11
      [] piece = "BlackQueen" -> 12

RawPiece_to_char(piece) ==
    CASE piece = "Empty" -> " "
      [] piece = "WhitePawn" -> "P"
      [] piece = "WhiteRook" -> "R"
      [] piece = "WhiteKnight" -> "N"
      [] piece = "WhiteBishop" -> "B"
      [] piece = "WhiteKing" -> "K"
      [] piece = "WhiteQueen" -> "Q"
      [] piece = "BlackPawn" -> "p"
      [] piece = "BlackRook" -> "r"
      [] piece = "BlackKnight" -> "n"
      [] piece = "BlackBishop" -> "b"
      [] piece = "BlackKing" -> "k"
      [] piece = "BlackQueen" -> "q"

-----------------------------------------------------------------------------
(* protocol.rs: ChessBoard, ChessMove                                      *)

\* mutant: an unrecognised byte is taken as an empty square
ChessBoard_new_lenient(raw) ==
    Some([ board |->
             [ i \in 1..Len(raw) |->
                 IF RawPiece_try_from_byte(raw[i]) = None THEN "Empty"
                 ELSE RawPiece_try_from_byte(raw[i])[1] ] ])

\* ChessBoard::new: every byte is looked up in order; an unrecognised byte
\* makes the whole board None, otherwise the pieces are the board
ChessBoard_new(raw) ==
    IF \E i \in 1..Len(raw) : RawPiece_try_from_byte(raw[i]) = None
    THEN None
    ELSE Some([board |-> [i \in 1..Len(raw) |-> RawPiece_try_from_byte(raw[i])[1]]])

ChessMove_new(grid, piece) == [grid |-> grid, piece |-> piece]

-----------------------------------------------------------------------------
(* protocol.rs: MessageType                                                *)

MessageTypes ==
    { "BoardDump", "BWTime", "FieldUpdate", "EEMoves", "BusAddress",
      "SerialNumber", "Trademark", "Version" }

\* mutant: one more code, 0x14, is taken for a Version
MessageType_try_from_byte_extra(byte) ==
    CASE byte = 6 -> Some("BoardDump")
      [] byte = 13 -> Some("BWTime")
      [] byte = 14 -> Some("FieldUpdate")
      [] byte = 15 -> Some("EEMoves")
      [] byte = 16 -> Some("BusAddress")
      [] byte = 17 -> Some("SerialNumber")
      [] byte = 18 -> Some("Trademark")
      [] byte = 19 -> Some("Version")
      [] byte = 20 -> Some("Version")
      [] OTHER -> None

MessageType_try_from_byte(byte) ==
    CASE byte = 6 -> Some("BoardDump")
      [] byte = 13 -> Some("BWTime")
      [] byte = 14 -> Some("FieldUpdate")
      [] byte = 15 -> Some("EEMoves")
      [] byte = 16 -> Some("BusAddress")
      [] byte = 17 -> Some("SerialNumber")
      [] byte = 18 -> Some("Trademark")
      [] byte = 19 -> Some("Version")
      [] OTHER -> None

-----------------------------------------------------------------------------
(* Text: String::from_utf8_lossy and format!("{}", u8)                     *)

\* U+FFFD REPLACEMENT CHARACTER, what from_utf8_lossy puts for invalid bytes
ReplacementChar == 65533

IsContinuation(b) == b >= 128 /\ b <= 191

\* the byte at 1-based index i, or 256 (no byte) past the end
ByteAt(s, i) == IF i <= Len(s) THEN s[i] ELSE 256

\* the range the second byte of a multi-byte sequence led by b0 must lie in
SecondByteOk(b0, b1) ==
    CASE b0 = 224 -> b1 >= 160 /\ b1 <= 191
      [] b0 = 237 -> b1 >= 128 /\ b1 <= 159
      [] b0 = 240 -> b1 >= 144 /\ b1 <= 191
      [] b0 = 244 -> b1 >= 128 /\ b1 <= 143
      [] OTHER -> IsContinuation(b1)

\* One step of the lossy decoder at 1-based index i: the scalar value it
\* emits and the number of bytes it consumes.  An ill-formed sequence is
\* replaced as a whole (its maximal well-formed prefix) by U+FFFD.
Utf8Step(s, i) ==
    LET b0 == s[i]
        b1 == ByteAt(s, i + 1)
        b2 == ByteAt(s, i + 2)
        b3 == ByteAt(s, i + 3)
        bad(n) == [cp |-> ReplacementChar, len |-> n]
    IN  IF b0 < 128 THEN [cp |-> b0, len |-> 1]
        ELSE IF b0 >= 194 /\ b0 <= 223
        THEN IF IsContinuation(b1)
             THEN [cp |-> (b0 - 192) * 64 + (b1 - 128), len |-> 2]
             ELSE bad(1)
        ELSE IF b0 >= 224 /\ b0 <= 239
        THEN IF ~SecondByteOk(b0, b1) THEN bad(1)
             ELSE IF ~IsContinuation(b2) THEN bad(2)
             ELSE [cp |-> (b0 - 224) * 4096 + (b1 - 128) * 64 + (b2 - 128),
                   len |-> 3]
        ELSE IF b0 >= 240 /\ b0 <= 244
        THEN IF ~SecondByteOk(b0, b1) THEN bad(1)
             ELSE IF ~IsContinuation(b2) THEN bad(2)
             ELSE IF ~IsContinuation(b3) THEN bad(3)
             ELSE [cp |-> (b0 - 240) * 262144 + (b1 - 128) * 4096
                            + (b2 - 128) * 64 + (b3 - 128),
                   len |-> 4]
        ELSE bad(1)

\* Whether the decoder takes a step at index i.  A step consumes, after its
\* first byte, continuation bytes only, and at most three of them: so a byte
\* that is no continuation byte always starts a step, and a continuation
\* byte starts one (and is replaced) unless the step of the nearest
\* preceding non-continuation byte reaches it.
IsStepStart(s, i) ==
    \/ ~IsContinuation(s[i])
    \/ ~ \E j \in (i - 3)..(i - 1) :
            /\ j >= 1
            /\ ~IsContinuation(s[j])
            /\ \A k \in (j + 1)..(i - 1) : IsContinuation(s[k])
            /\ Utf8Step(s, j).len > i - j

\* the scalar values of the steps that start in lo..hi, in order
RECURSIVE Utf8Emit(_, _, _)
Utf8Emit(s, lo, hi) ==
    IF lo > hi THEN <<>>
    ELSE IF lo = hi
    THEN IF IsStepStart(s, lo) THEN << Utf8Step(s, lo).cp >> ELSE <<>>
    ELSE LET mid == (lo + hi) \div 2
         IN  Utf8Emit(s, lo, mid) \o Utf8Emit(s, mid + 1, hi)

\* String::from_utf8_lossy(data).into_owned()
from_utf8_lossy(data) == Utf8Emit(data, 1, Len(data))

\* the decimal rendering of an unsigned integer, as format!("{}", n) gives it
RECURSIVE DecimalDigits(_)
DecimalDigits(n) ==
    IF n < 10 THEN << 48 + n >>
    ELSE Append(DecimalDigits(n \div 10), 48 + (n % 10))

\* format!("{}.{}", a, b); 46 is '.'
FormatVersion(a, b) == DecimalDigits(a) \o << 46 >> \o DecimalDigits(b)

-----------------------------------------------------------------------------
(* protocol.rs: Response, ParseError                                       *)

\* Result::Ok, Result::Err, and a panic that unwinds out of the call
Ok(v) == [tag |-> "Ok", val |-> v]

Err(e) == [tag |-> "Err", err |-> e]

Panicked(msg) == [tag |-> "Panic", msg |-> msg]

\* mutant: the two figures in each other's place
ParseError_invalid_length_swapped(message_type, expected, actual) ==
    [ kind |-> "InvalidLength", message_type |-> message_type,
      expected |-> actual, actual |-> expected ]

ParseError_invalid_length(message_type, expected, actual) ==
    [ kind |-> "InvalidLength", message_type |-> message_type,
      expected |-> expected, actual |-> actual ]

ParseError_InvalidPiece == [kind |-> "InvalidPiece"]

ParseError_InvalidMove == [kind |-> "InvalidMove"]

\* the payload length each fixed-length arm of try_from_raw compares with
BoardDumpLen == 64

BWTimeLen == 7

FieldUpdateLen == 2

VersionLen == 2

\* the bound `grid < 64` of the FieldUpdate arm
GridLimit == 64

DecodeBoardDump(message_type, data) ==
    IF Len(data) = BoardDumpLen
    THEN LET board == ChessBoard_new(data)
         IN  IF board # None
             THEN Ok([kind |-> "BoardDump", board |-> board[1]])
             ELSE Err(ParseError_InvalidPiece)
    ELSE Err(ParseError_invalid_length(message_type, BoardDumpLen, Len(data)))

DecodeBWTime(message_type, data) ==
    IF Len(data) = BWTimeLen
    THEN Ok([ kind |-> "BWTime",
              white_time |-> Remaining_from_bcd(Slice(data, 0, 3)),
              black_time |-> Remaining_from_bcd(Slice(data, 3, 6)),
              status |-> ClockStatus_from_byte(data[7]) ])
    ELSE Err(ParseError_invalid_length(message_type, BWTimeLen, Len(data)))

\* mutant: the piece byte is looked up before the square index is checked
DecodeFieldUpdate_piece_first(message_type, data) ==
    IF Len(data) = FieldUpdateLen
    THEN LET piece == RawPiece_try_from_byte(data[2])
         IN  IF piece # None
             THEN IF data[1] < GridLimit
                  THEN Ok([ kind |-> "FieldUpdate",
                            mv |-> ChessMove_new(data[1], piece[1]) ])
                  ELSE Err(ParseError_InvalidMove)
             ELSE Err(ParseError_InvalidPiece)
    ELSE Err(ParseError_invalid_length(message_type, FieldUpdateLen, Len(data)))

DecodeFieldUpdate(message_type, data) ==
    IF Len(data) = FieldUpdateLen
    THEN LET grid == data[1]
         IN  IF grid < GridLimit
             THEN LET piece == RawPiece_try_from_byte(data[2])
                  IN  IF piece # None
                      THEN Ok([ kind |-> "FieldUpdate",
                                mv |-> ChessMove_new(grid, piece[1]) ])
                      ELSE Err(ParseError_InvalidPiece)
             ELSE Err(ParseError_InvalidMove)
    ELSE Err(ParseError_invalid_length(message_type, FieldUpdateLen, Len(data)))

DecodeVersion(message_type, data) ==
    IF Len(data) = VersionLen
    THEN Ok([kind |-> "Version", text |-> FormatVersion(data[1], data[2])])
    ELSE Err(ParseError_invalid_length(message_type, VersionLen, Len(data)))

\* the EEMoves arm is todo!(...), which panics
DecodeEEMoves(message_type, data) ==
    Panicked("not yet implemented: Implement EEMoves parsing")

Response_try_from_raw(message_type, data) ==
    CASE message_type = "BoardDump" -> DecodeBoardDump(message_type, data)
      [] message_type = "BWTime" -> DecodeBWTime(message_type, data)
      [] message_type = "FieldUpdate" -> DecodeFieldUpdate(message_type, data)
      [] message_type = "SerialNumber" ->
            Ok([kind |-> "SerialNumber", text |-> from_utf8_lossy(data)])
      [] message_type = "EEMoves" -> DecodeEEMoves(message_type, data)
      [] message_type = "BusAddress" ->
            Ok([kind |-> "BusAddress", text |-> from_utf8_lossy(data)])
      [] message_type = "Trademark" ->
            Ok([kind |-> "Trademark", text |-> from_utf8_lossy(data)])
      [] message_type = "Version" -> DecodeVersion(message_type, data)

-----------------------------------------------------------------------------
(* game.rs: StartPosition, GameBoard                                       *)

StartPositions == { "None", "Normal", "Mirror" }

\* mutant: the White back rank in the conventional order, queen before king
NormalRank0_queen_first ==
    << "WhiteRook", "WhiteKnight", "WhiteBishop", "WhiteQueen",
       "WhiteKing", "WhiteBishop", "WhiteKnight", "WhiteRook" >>

\* mutant: the Black back rank of Mirror in the order Normal uses
MirrorRank0_king_first ==
    << "BlackRook", "BlackKnight", "BlackBishop", "BlackKing",
       "BlackQueen", "BlackBishop", "BlackKnight", "BlackRook" >>

\* mutant: the White back rank of Mirror in the order Normal uses
MirrorRank7_king_first ==
    << "WhiteRook", "WhiteKnight", "WhiteBishop", "WhiteKing",
       "WhiteQueen", "WhiteBishop", "WhiteKnight", "WhiteRook" >>

\* the array literals is_starting_position compares the back ranks with
NormalRank0 ==
    << "WhiteRook", "WhiteKnight", "WhiteBishop", "WhiteKing",
       "WhiteQueen", "WhiteBishop", "WhiteKnight", "WhiteRook" >>

NormalRank7 ==
    << "BlackRook", "BlackKnight", "BlackBishop", "BlackKing",
       "BlackQueen", "BlackBishop", "BlackKnight", "BlackRook" >>

MirrorRank0 ==
    << "BlackRook", "BlackKnight", "BlackBishop", "BlackQueen",
       "BlackKing", "BlackBishop", "BlackKnight", "BlackRook" >>

MirrorRank7 ==
    << "WhiteRook", "WhiteKnight", "WhiteBishop", "WhiteQueen",
       "WhiteKing", "WhiteBishop", "WhiteKnight", "WhiteRook" >>

\* mutant: the slice starts one square late
CentreOccupied_from_17(b) == \E i \in 17..47 : b[i + 1] # "Empty"

\* board[16..48].iter().any(|p| *p != RawPiece::Empty)
CentreOccupied(b) == \E i \in 16..47 : b[i + 1] # "Empty"

\* board[from..to].iter().all(|p| *p == piece)
AllAre(b, from, to, piece) == \A i \in from..(to - 1) : b[i + 1] = piece

IsNormal(b) ==
    /\ AllAre(b, 8, 16, "WhitePawn")
    /\ AllAre(b, 48, 56, "BlackPawn")
    /\ Slice(b, 0, 8) = NormalRank0
    /\ Slice(b, 56, 64) = NormalRank7

IsMirror(b) ==
    /\ AllAre(b, 8, 16, "BlackPawn")
    /\ AllAre(b, 48, 56, "WhitePawn")
    /\ Slice(b, 0, 8) = MirrorRank0
    /\ Slice(b, 56, 64) = MirrorRank7

\* GameBoard::is_starting_position(&self)
is_starting_position(self) ==
    LET b == self.board.board
    IN  IF CentreOccupied(b) THEN "None"
        ELSE IF IsNormal(b) THEN "Normal"
        ELSE IF IsMirror(b) THEN "Mirror"
        ELSE "None"

\* GameBoard::new(board)
GameBoard_new(board) ==
    LET game == [board |-> board, start |-> "None"]
    IN  [game EXCEPT !.start = is_starting_position(game)]

\* the length of the array GameBoard indexes, [RawPiece; 64]
BoardSize == 64

\* the indexed store board[mv.grid as usize] = mv.piece: an index past the
\* array panics before anything is written
IndexInBounds(index) == index < BoardSize

\* mutant: the store goes to the square after the one named
apply_move_next_square(self, mv) ==
    IF mv.grid < 64
    THEN [ outcome |-> "returned",
           game |-> [self EXCEPT
                       !.board.board[((mv.grid + 1) % 64) + 1] = mv.piece] ]
    ELSE [ outcome |-> "panicked", game |-> self ]

\* GameBoard::apply_move(&mut self, mv): the outcome (returned or panicked)
\* and the GameBoard it leaves.  The rows it prints are not modelled.
apply_move(self, mv) ==
    IF IndexInBounds(mv.grid)
    THEN [ outcome |-> "returned",
           game |-> [self EXCEPT !.board.board[mv.grid + 1] = mv.piece] ]
    ELSE [ outcome |-> "panicked", game |-> self ]

-----------------------------------------------------------------------------
(* main.rs: get_response                                                   *)

\* buffer[0] & 0x80
HighBit(b) == ((b \div 128) % 2) * 128

\* buffer[0] & 0x7F
TypeCode(b) == b % 128

\* (buffer[0] as usize) << 7
LengthHigh(b) == b * 128

RECURSIVE BitOr(_, _)
BitOr(a, b) ==
    IF a = 0 THEN b
    ELSE IF b = 0 THEN a
    ELSE (IF a % 2 = 1 \/ b % 2 = 1 THEN 1 ELSE 0)
         + 2 * BitOr(a \div 2, b \div 2)

\* the length below which get_response fails, and what it subtracts:
\* the three header bytes
HeaderLen == 3

\* mutant: the comparison is with 2
LengthTooShort_below_2(length) == length < 2

\* if length < 3
LengthTooShort(length) == length < HeaderLen

\* mutant: the header bytes are not taken off the length
PayloadLength_whole(length) == length

\* length -= 3
PayloadLength(length) == length - HeaderLen

\* what the port gives in place of a byte when a read times out: no u8
Timeout == 256

\* mutant: a read that timed out is tried once more before it fails
read_exact_retry(s, p) ==
    IF p + 1 > Len(s) THEN [ok |-> FALSE, byte |-> 0, pos |-> p]
    ELSE IF s[p + 1] # Timeout
         THEN [ok |-> TRUE, byte |-> s[p + 1], pos |-> p + 1]
         ELSE IF p + 2 > Len(s) \/ s[p + 2] = Timeout
              THEN [ok |-> FALSE, byte |-> 0, pos |-> p + 1]
              ELSE [ok |-> TRUE, byte |-> s[p + 2], pos |-> p + 2]

\* port.read_exact(&mut buffer) with a buffer of one byte, the port having
\* delivered the first p elements of s.  An element of s is a byte, or
\* Timeout: the read made at that point fails and the port goes on with the
\* element behind it.  Past the end of s every read fails.
\* ok: the read returned Ok; byte: buffer[0]; pos: the elements delivered.
read_exact(s, p) ==
    IF p + 1 > Len(s) THEN [ok |-> FALSE, byte |-> 0, pos |-> p]
    ELSE IF s[p + 1] = Timeout THEN [ok |-> FALSE, byte |-> 0, pos |-> p + 1]
    ELSE [ok |-> TRUE, byte |-> s[p + 1], pos |-> p + 1]

\* the `?` on a read that failed, the port at p: the error is returned from
\* get_response, whatever was read so far is dropped
ReadFailure(p) ==
    [res |-> Err("read failed"), pos |-> p, frame |-> None]

\* lines 39-54: look the type code up, decode the payload, map the outcome
DecodeFrame(resp_type, data) ==
    LET rtype == MessageType_try_from_byte(resp_type)
    IN  IF rtype # None
        THEN LET parsed == Response_try_from_raw(rtype[1], data)
             IN  CASE parsed.tag = "Ok" -> Ok(parsed.val)
                   [] parsed.tag = "Err" -> Err("Parse error")
                   [] parsed.tag = "Panic" -> parsed
        ELSE Err("Invalid response type")

\* lines 14-17: bytes are read and dropped until a read fails or gives a
\* byte with bit 7 set.  The number of elements the port has delivered
\* before that read, p or more.
ScanTypeByte(s, p) ==
    LET stops == { q \in p..Len(s) :
                     \/ ~ read_exact(s, q).ok
                     \/ HighBit(read_exact(s, q).byte) # 0 }
    IN  CHOOSE q \in stops : \A j \in stops : q <= j

\* lines 35-38: `length` reads of one byte each, pushed onto data; the
\* first read that fails ends the loop (and the call).  A read that returns
\* Ok moves the port on by one element, so read number i + 1 is made with
\* the port at p + i.
ReadPayload(s, p, length) ==
    LET failed == { i \in 0..(length - 1) : ~ read_exact(s, p + i).ok }
    IN  IF failed = {}
        THEN [ ok |-> TRUE, pos |-> p + length,
               data |-> [i \in 1..length |-> read_exact(s, p + i - 1).byte] ]
        ELSE LET first == CHOOSE i \in failed : \A j \in failed : i <= j
             IN  [ ok |-> FALSE, pos |-> read_exact(s, p + first).pos,
                   data |-> <<>> ]

\* get_response(port), the port having delivered the first p elements of s.
\* res: what the call returns (or the panic that unwinds out of it);
\* pos: the elements of s the port has delivered when it ends;
\* frame: Some of the locals (resp_type, data) once the payload was read.
\* A `continue` after a length byte with bit 7 set goes back to the read at
\* the top of the loop: the scan resumes after that byte.
RECURSIVE get_response(_, _)
get_response(s, p) ==
    LET r0 == read_exact(s, ScanTypeByte(s, p))
    IN  IF ~ r0.ok THEN ReadFailure(r0.pos)
        ELSE LET r1 == read_exact(s, r0.pos)
        IN  IF ~ r1.ok THEN ReadFailure(r1.pos)
        ELSE IF HighBit(r1.byte) # 0 THEN get_response(s, r1.pos)
        ELSE LET r2 == read_exact(s, r1.pos)
        IN  IF ~ r2.ok THEN ReadFailure(r2.pos)
        ELSE IF HighBit(r2.byte) # 0 THEN get_response(s, r2.pos)
        ELSE LET resp_type == TypeCode(r0.byte)
                 length == BitOr(LengthHigh(r1.byte), r2.byte)
             IN  IF LengthTooShort(length)
                 THEN [ res |-> Err("Invalid response length"),
                        pos |-> r2.pos, frame |-> None ]
                 ELSE LET payload == ReadPayload(s, r2.pos,
                                                 PayloadLength(length))
                      IN  IF ~ payload.ok THEN ReadFailure(payload.pos)
                          ELSE [ res |-> DecodeFrame(resp_type, payload.data),
                                 pos |-> payload.pos,
                                 frame |-> Some([ resp_type |-> resp_type,
                                                  data |-> payload.data ]) ]

-----------------------------------------------------------------------------
(* Inputs: boards                                                          *)

BackRankKQ ==
    << "Rook", "Knight", "Bishop", "King", "Queen", "Bishop", "Knight", "Rook" >>

BackRankQK ==
    << "Rook", "Knight", "Bishop", "Queen", "King", "Bishop", "Knight", "Rook" >>

PieceOf(colour, type) ==
    CASE colour = "White" /\ type = "Pawn" -> "WhitePawn"
      [] colour = "White" /\ type = "Rook" -> "WhiteRook"
      [] colour = "White" /\ type = "Knight" -> "WhiteKnight"
      [] colour = "White" /\ type = "Bishop" -> "WhiteBishop"
      [] colour = "White" /\ type = "King" -> "WhiteKing"
      [] colour = "White" /\ type = "Queen" -> "WhiteQueen"
      [] colour = "Black" /\ type = "Pawn" -> "BlackPawn"
      [] colour = "Black" /\ type = "Rook" -> "BlackRook"
      [] colour = "Black" /\ type = "Knight" -> "BlackKnight"
      [] colour = "Black" /\ type = "Bishop" -> "BlackBishop"
      [] colour = "Black" /\ type = "King" -> "BlackKing"
      [] colour = "Black" /\ type = "Queen" -> "BlackQueen"

\* The 64 squares of a start layout: colour `low` on squares 0-15 (back rank
\* on 0-7 in the given order of piece types, pawns on 8-15), squares 16-47
\* empty, colour `high` on squares 48-63 (pawns on 48-55, back rank on 56-63).
Layout(low, high, order) ==
    [ i \in 1..64 |->
        IF i <= 8 THEN PieceOf(low, order[i])
        ELSE IF i <= 16 THEN PieceOf(low, "Pawn")
        ELSE IF i <= 48 THEN "Empty"
        ELSE IF i <= 56 THEN PieceOf(high, "Pawn")
        ELSE PieceOf(high, order[i - 56]) ]

EmptySquares == [i \in 1..64 |-> "Empty"]

BaseLayouts ==
    { Layout(c[1], c[2], order) :
        c \in { <<"White", "Black">>, <<"Black", "White">> },
        order \in { BackRankKQ, BackRankQK } }
    \cup { EmptySquares }

\* every base layout, and every board that differs from one in one square
NearLayouts ==
    BaseLayouts
    \cup { [b EXCEPT ![i] = p] : b \in BaseLayouts, i \in 1..64, p \in RawPieces }

\* the ChessBoard values GameBoard::new is driven with
ClassifyBoards == { [board |-> b] : b \in NearLayouts }

\* the boards the update sequences start from
StartBoards == { [board |-> b] : b \in BaseLayouts }

\* the wire bytes of a board: each square's piece code
DumpBytes(b) == [i \in 1..Len(b) |-> RawPiece_discriminant(b[i])]

-----------------------------------------------------------------------------
(* Inputs: frames and streams                                              *)

\* The device's framing of a payload: the type byte (bit 7 set), the total
\* length (header included) as two 7-bit bytes, the payload.
Frame(type_byte, payload) ==
    << type_byte, (Len(payload) + 3) \div 128, (Len(payload) + 3) % 128 >>
    \o payload

RECURSIVE Flatten(_)
Flatten(ss) == IF ss = <<>> THEN <<>> ELSE Head(ss) \o Flatten(Tail(ss))

SeqsUpTo(S, n) == UNION { [1..k -> S] : k \in 0..n }

MaxGarbage == 2

MaxFrames == 2

MaxCalls == 3

\* what precedes the first frame: bytes with bit 7 clear and a stray type byte
PrefixBytes == { 0, 127, 147 }

ClockPayload == << 89, 0, 18, 1, 48, 69, 8 >>

FrameSegments ==
    { Frame(142, << 8, 0 >>),                           \* FieldUpdate
      Frame(142, << 16, 141 >>),                        \* FieldUpdate, bad piece
      Frame(147, << 1, 2 >>),                           \* Version
      Frame(147, << 1 >>),                              \* Version, too short
      Frame(255, << 128, 255 >>),                       \* unknown type 0x7F
      Frame(143, << >>),                                \* EEMoves
      Frame(146, Fill(126, 65)),                        \* Trademark, length 129
      Frame(134, DumpBytes(Layout("White", "Black", BackRankKQ))),
      Frame(141, ClockPayload),                         \* BWTime
      << 142, 0, 2 >> }                                 \* total length 2

FrameStreams ==
    { prefix \o Flatten(frames) :
        prefix \in SeqsUpTo(PrefixBytes, MaxGarbage),
        frames \in SeqsUpTo(FrameSegments, MaxFrames) \ { <<>> } }

\* a frame of every 7-bit type code, a Version frame behind it
TypeCodeStreams ==
    { Frame(128 + c, << 8, 0 >>) \o Frame(147, << 1, 2 >>) : c \in 0..127 }

\* a header that declares a total length below 3, behind 0 or 1 garbage
\* bytes, a Version frame behind it
ShortLengthStreams ==
    { prefix \o << 142, 0, n >> \o Frame(147, << 1, 2 >>) :
        prefix \in { <<>>, << 0 >> }, n \in 0..2 }

\* streams that end inside a frame: every proper prefix of a few streams
TruncatedStreams ==
    UNION { { SubSeq(s, 1, k) : k \in 0..(Len(s) - 1) } :
              s \in { << 0 >> \o Frame(142, << 8, 0 >>),
                      Frame(147, << 1, 2 >>) \o Frame(141, ClockPayload),
                      << 147, 0, 142, 0 >> } }

\* s with a read that times out after its first k bytes
TimeoutAfter(s, k) ==
    SubSeq(s, 1, k) \o << Timeout >> \o SubSeq(s, k + 1, Len(s))

\* streams with one read that times out, or two in a row, at every place
\* of a garbage byte and two frames; bytes go on arriving behind it
TimeoutStreams ==
    LET two == << 0 >> \o Frame(142, << 8, 0 >>) \o Frame(147, << 1, 2 >>)
        clock == Frame(141, ClockPayload) \o Frame(147, << 1, 2 >>)
    IN  { TimeoutAfter(two, k) : k \in 0..Len(two) }
        \cup { TimeoutAfter(TimeoutAfter(two, k), k) : k \in 0..Len(two) }
        \cup { TimeoutAfter(clock, k) : k \in 0..Len(clock) }

FrameInputs ==
    FrameStreams \cup TypeCodeStreams \cup ShortLengthStreams
                 \cup TruncatedStreams \cup TimeoutStreams

-----------------------------------------------------------------------------
(* Inputs: payloads for the decoder                                        *)

MaxPayloadLen == 65

PatternBytes == { 0, 1, 12, 13, 89, 128, 255 }

DecodePayloads ==
    { Fill(n, b) : n \in 0..MaxPayloadLen, b \in PatternBytes }
    \cup { DumpBytes(b) : b \in BaseLayouts }
    \cup { << g, p >> : g \in { 0, 8, 63, 64, 200 }, p \in { 0, 5, 12, 13, 255 } }
    \cup { ClockPayload, << 1, 2 >>, << 195, 169, 255, 65 >> }

\* every 2-byte payload
FieldUpdatePayloads == { << g, p >> : g \in 0..255, p \in 0..255 }

\* 7-byte payloads in which each byte takes every value
ClockPayloads ==
    { Fill(7, b) : b \in 0..255 }
    \cup { [ClockPayload EXCEPT ![i] = b] : i \in 1..7, b \in 0..255 }

DecodeInputs ==
    { [message_type |-> t, data |-> d] : t \in MessageTypes, d \in DecodePayloads }
    \cup { [message_type |-> "FieldUpdate", data |-> d] : d \in FieldUpdatePayloads }
    \cup { [message_type |-> "BWTime", data |-> d] : d \in ClockPayloads }

-----------------------------------------------------------------------------
(* Harness bookkeeping                                                     *)

NoCall == [op |-> "none"]

-----------------------------------------------------------------------------
(* SpecFrame: successive calls of get_response on one byte stream          *)

InitFrame ==
    /\ harness = "frame"
    /\ pc = "call"
    /\ stream \in FrameInputs
    /\ pos = 0
    /\ written = <<>>
    /\ arg = <<>>
    /\ game_board = <<>>
    /\ last = NoCall
    /\ calls = 0

FrameCall ==
    /\ harness = "frame"
    /\ pc = "call"
    /\ calls < MaxCalls
    /\ LET r == get_response(stream, pos)
       IN  /\ last' = [ op |-> "get_response", from |-> pos,
                        res |-> r.res, frame |-> r.frame ]
           /\ pos' = r.pos
           /\ pc' = IF r.res.tag = "Panic" THEN "panicked" ELSE "call"
    /\ calls' = calls + 1
    /\ UNCHANGED <<harness, stream, written, arg, game_board>>

NextFrame == FrameCall

SpecFrame == InitFrame /\ [][NextFrame]_vars

-----------------------------------------------------------------------------
(* SpecDecode: one call of Response::try_from_raw                          *)

InitDecode ==
    /\ harness = "decode"
    /\ pc = "call"
    /\ arg \in DecodeInputs
    /\ stream = <<>>
    /\ pos = 0
    /\ written = <<>>
    /\ game_board = <<>>
    /\ last = NoCall
    /\ calls = 0

DecodeCall ==
    /\ harness = "decode"
    /\ pc = "call"
    /\ LET r == Response_try_from_raw(arg.message_type, arg.data)
       IN  /\ last' = [op |-> "try_from_raw", res |-> r]
           /\ pc' = IF r.tag = "Panic" THEN "panicked" ELSE "returned"
    /\ calls' = calls + 1
    /\ UNCHANGED <<harness, stream, pos, written, arg, game_board>>

NextDecode == DecodeCall

SpecDecode == InitDecode /\ [][NextDecode]_vars

-----------------------------------------------------------------------------
(* SpecClassify: GameBoard::new on one board                               *)

InitClassify ==
    /\ harness = "classify"
    /\ pc = "call"
    /\ arg \in ClassifyBoards
    /\ stream = <<>>
    /\ pos = 0
    /\ written = <<>>
    /\ game_board = <<>>
    /\ last = NoCall
    /\ calls = 0

ClassifyCall ==
    /\ harness = "classify"
    /\ pc = "call"
    /\ game_board' = GameBoard_new(arg)
    /\ last' = [op |-> "new"]
    /\ pc' = "returned"
    /\ calls' = calls + 1
    /\ UNCHANGED <<harness, stream, pos, written, arg>>

NextClassify == ClassifyCall

SpecClassify == InitClassify /\ [][NextClassify]_vars

-----------------------------------------------------------------------------
(* SpecBoard: GameBoard::new, then calls of apply_move and                 *)
(* is_starting_position                                                    *)

MaxMoves == 2

\* the ChessMove values apply_move is driven with: grid is a u8
MoveGrids == { 3, 8, 16, 47, 60, 64, 255 }

InitBoard ==
    /\ harness = "board"
    /\ pc = "new"
    /\ arg \in StartBoards
    /\ stream = <<>>
    /\ pos = 0
    /\ written = <<>>
    /\ game_board = <<>>
    /\ last = NoCall
    /\ calls = 0

BoardNew ==
    /\ harness = "board"
    /\ pc = "new"
    /\ game_board' = GameBoard_new(arg)
    /\ last' = [op |-> "new"]
    /\ pc' = "ready"
    /\ UNCHANGED <<harness, stream, pos, written, arg, calls>>

BoardApplyMove ==
    /\ harness = "board"
    /\ pc = "ready"
    /\ calls < MaxMoves
    /\ \E grid \in MoveGrids, piece \in RawPieces :
         LET mv == [grid |-> grid, piece |-> piece]
             r == apply_move(game_board, mv)
         IN  /\ game_board' = r.game
             /\ last' = [op |-> "apply_move", mv |-> mv, outcome |-> r.outcome]
             /\ pc' = IF r.outcome = "panicked" THEN "panicked" ELSE "ready"
    /\ calls' = calls + 1
    /\ UNCHANGED <<harness, stream, pos, written, arg>>

BoardClassify ==
    /\ harness = "board"
    /\ pc = "ready"
    /\ last.op # "is_starting_position"
    /\ last' = [ op |-> "is_starting_position",
                 res |-> is_starting_position(game_board) ]
    /\ UNCHANGED <<harness, pc, stream, pos, written, arg, game_board, calls>>

NextBoard == BoardNew \/ BoardApplyMove \/ BoardClassify

SpecBoard == InitBoard /\ [][NextBoard]_vars

-----------------------------------------------------------------------------
(* Spec: main                                                              *)

MaxLoopFrames == 2

MaxReceives == 3

FirstFrames ==
    { Frame(134, DumpBytes(b)) :
        b \in { Layout("White", "Black", BackRankKQ),
                Layout("Black", "White", BackRankQK),
                Layout("Black", "White", BackRankKQ) } }
    \cup { Frame(134, Fill(64, 13)),        \* BoardDump of unknown pieces
           Frame(134, [DumpBytes(Layout("White", "Black", BackRankKQ))
                         EXCEPT ![37] = 13]), \* one unknown piece
           Frame(147, << 1, 2 >>) }          \* a Version where the dump is due

SecondFrames ==
    { Frame(145, << 53, 46, 49 >>),         \* SerialNumber
      Frame(147, << 1, 2 >>),               \* Version
      Frame(145, << 8 >>) \o << 0 >>,       \* SerialNumber, then a stray byte
      << 145, 0, 1 >> }                     \* total length 1

LoopFrames ==
    { Frame(142, << 8, 0 >>),               \* square 8 := Empty
      Frame(142, << 16, 1 >>),              \* square 16 := WhitePawn
      Frame(142, << 3, 6 >>),               \* square 3 := WhiteQueen
      Frame(142, << 59, 12 >>),             \* square 59 := BlackQueen
      Frame(142, << 64, 1 >>),              \* InvalidMove
      Frame(142, << 8, 13 >>),              \* InvalidPiece
      Frame(142, << 8 >>),                  \* InvalidLength
      Frame(129, << 8, 0 >>),               \* unknown type 1
      Frame(134, DumpBytes(EmptySquares)),  \* a second BoardDump
      Frame(141, ClockPayload),             \* BWTime
      Frame(143, << 8, 0 >>),               \* EEMoves
      << 142, 0, 2 >> }                     \* total length 2

MainStreams ==
    { first \o second \o Flatten(frames) :
        first \in FirstFrames, second \in SecondFrames,
        frames \in SeqsUpTo(LoopFrames, MaxLoopFrames) }

Init ==
    /\ harness = "main"
    /\ pc = "request_board"
    /\ stream \in MainStreams
    /\ pos = 0
    /\ written = <<>>
    /\ arg = <<>>
    /\ game_board = <<>>
    /\ last = NoCall
    /\ calls = 0

\* lines 72-84: Reset and RequestBoard are written, the response is unwrapped
\* and must be a BoardDump, of which the GameBoard is built
MainRequestBoard ==
    /\ harness = "main"
    /\ pc = "request_board"
    /\ written' = written \o Command_as_byte("Reset")
                          \o Command_as_byte("RequestBoard")
    /\ LET r == get_response(stream, pos)
       IN  /\ last' = [ op |-> "get_response", from |-> pos,
                        res |-> r.res, frame |-> r.frame ]
           /\ pos' = r.pos
           /\ IF r.res.tag = "Ok" /\ r.res.val.kind = "BoardDump"
              THEN /\ game_board' = GameBoard_new(r.res.val.board)
                   /\ pc' = "request_serial"
              ELSE /\ game_board' = game_board
                   /\ pc' = "panicked"
    /\ calls' = calls + 1
    /\ UNCHANGED <<harness, stream, arg>>

\* lines 85-89: RequestSerialNumber is written, the response is unwrapped and
\* printed, RequestUpdate is written
MainRequestSerial ==
    /\ harness = "main"
    /\ pc = "request_serial"
    /\ LET r == get_response(stream, pos)
       IN  /\ last' = [ op |-> "get_response", from |-> pos,
                        res |-> r.res, frame |-> r.frame ]
           /\ pos' = r.pos
           /\ IF r.res.tag = "Ok"
              THEN /\ written' = written \o Command_as_byte("RequestSerialNumber")
                                         \o Command_as_byte("RequestUpdate")
                   /\ pc' = "loop"
              ELSE /\ written' = written \o Command_as_byte("RequestSerialNumber")
                   /\ pc' = "panicked"
    /\ calls' = calls + 1
    /\ UNCHANGED <<harness, stream, arg, game_board>>

\* mutant: the loop unwraps the response as lines 74 and 87 do
ReceiveTurn_unwrap(self, res) ==
    IF res.tag = "Ok" /\ res.val.kind = "FieldUpdate"
    THEN apply_move(self, res.val.mv)
    ELSE IF res.tag = "Ok"
    THEN [outcome |-> "returned", game |-> self]
    ELSE [outcome |-> "panicked", game |-> self]

\* lines 92-103: what one turn of the loop does with what get_response
\* gave: a FieldUpdate is applied, any other response and any error is only
\* printed; a panic inside get_response or apply_move ends the process
ReceiveTurn(self, res) ==
    IF res.tag = "Ok"
    THEN IF res.val.kind = "FieldUpdate"
         THEN apply_move(self, res.val.mv)
         ELSE [outcome |-> "returned", game |-> self]
    ELSE IF res.tag = "Err"
    THEN [outcome |-> "returned", game |-> self]
    ELSE [outcome |-> "panicked", game |-> self]

\* lines 91-104: one turn of the receive loop
MainReceive ==
    /\ harness = "main"
    /\ pc = "loop"
    /\ calls < 2 + MaxReceives
    /\ LET r == get_response(stream, pos)
           turn == ReceiveTurn(game_board, r.res)
       IN  /\ last' = [ op |-> "get_response", from |-> pos,
                        res |-> r.res, frame |-> r.frame ]
           /\ pos' = r.pos
           /\ game_board' = turn.game
           /\ pc' = IF turn.outcome = "panicked" THEN "panicked" ELSE "loop"
    /\ calls' = calls + 1
    /\ UNCHANGED <<harness, stream, written, arg>>

Next == MainRequestBoard \/ MainRequestSerial \/ MainReceive

Spec == Init /\ [][Next]_vars

-----------------------------------------------------------------------------
(* Properties of the frame reader (SpecFrame)                              *)

\* a well-formed frame starts at 1-based index k of s and lies within s
WellFormedFrameAt(s, k) ==
    /\ k + 2 <= Len(s)
    /\ s[k] >= 128
    /\ s[k] <= 255
    /\ s[k + 1] < 128
    /\ s[k + 2] < 128
    /\ s[k + 1] * 128 + s[k + 2] >= 3
    /\ k + s[k + 1] * 128 + s[k + 2] - 1 <= Len(s)
    /\ \A i \in (k + 3)..(k + s[k + 1] * 128 + s[k + 2] - 1) : s[i] <= 255

\* its total length, header included
TotalLengthAt(s, k) == s[k + 1] * 128 + s[k + 2]

\* its type code and payload
FrameAt(s, k) ==
    [ resp_type |-> s[k] - 128,
      data |-> SubSeq(s, k + 3, k + TotalLengthAt(s, k) - 1) ]

\* the bytes of s after the first `from` are n bytes with bit 7 clear and
\* then a well-formed frame
GarbageThenFrame(s, from, n) ==
    /\ \A i \in (from + 1)..(from + n) : i <= Len(s) /\ s[i] < 128
    /\ WellFormedFrameAt(s, from + n + 1)

\* C1: when the bytes a call of get_response starts at are N bytes with bit 7
\* clear followed by a well-formed frame, the call recovers that frame (type
\* code = low 7 bits of the type byte, payload verbatim) and has read
\* exactly N + total_length bytes, none beyond the frame.
C1_FrameResync ==
    (harness = "frame" /\ last.op = "get_response") =>
        \A n \in 0..(Len(stream) - last.from) :
            GarbageThenFrame(stream, last.from, n) =>
                /\ last.frame = Some(FrameAt(stream, last.from + n + 1))
                /\ pos = last.from + n
                         + TotalLengthAt(stream, last.from + n + 1)

\* C1 witness: a call that skipped two garbage bytes, recovered the frame
\* behind them and left the bytes after it unread
C1_Witness ==
    /\ harness = "frame"
    /\ last.op = "get_response"
    /\ GarbageThenFrame(stream, last.from, 2)
    /\ last.frame = Some(FrameAt(stream, last.from + 3))
    /\ Len(last.frame[1].data) > 0
    /\ pos < Len(stream)

\* C2: a byte with bit 7 set read where a length byte is due is the type byte
\* of the next attempt: a stream T1, T2, len_hi, len_lo, payload (a type
\* byte, then a well-formed frame), and likewise T1, len_hi, T2, len_hi,
\* len_lo, payload, yields the frame whose type byte is T2.
C2_ResyncOnLengthByte ==
    (harness = "frame" /\ last.op = "get_response" /\ last.from = 0) =>
        \A k \in 2..3 :
            ( /\ WellFormedFrameAt(stream, k)
              /\ stream[1] >= 128
              /\ stream[1] <= 255
              /\ \A i \in 2..(k - 1) : stream[i] < 128 )
            => /\ last.frame = Some(FrameAt(stream, k))
               /\ pos = k - 1 + TotalLengthAt(stream, k)

-----------------------------------------------------------------------------
(* Properties of the decoder (SpecDecode)                                  *)

\* C3: Response::try_from_raw returns a Response or a ParseError for every
\* message type and payload; it never panics, an EEMoves frame included.
C3_DecodeNeverPanics ==
    (harness = "decode" /\ last.op = "try_from_raw") =>
        last.res.tag \in { "Ok", "Err" }

\* the payload length the protocol requires of a fixed-length message type
RequiredLength(t) ==
    CASE t = "BoardDump" -> 64
      [] t = "BWTime" -> 7
      [] t = "FieldUpdate" -> 2
      [] t = "Version" -> 2

FixedLengthTypes == { "BoardDump", "BWTime", "FieldUpdate", "Version" }

\* C7: for BoardDump (64), ClockReading (7), FieldUpdate (2) and Version (2),
\* a payload of any other length yields InvalidLength carrying the message
\* type, expected = the required length and actual = the payload length,
\* and no Response.
C7_LengthValidation ==
    ( /\ harness = "decode"
      /\ last.op = "try_from_raw"
      /\ arg.message_type \in FixedLengthTypes
      /\ Len(arg.data) # RequiredLength(arg.message_type) )
    => last.res =
         [ tag |-> "Err",
           err |-> [ kind |-> "InvalidLength",
                     message_type |-> arg.message_type,
                     expected |-> RequiredLength(arg.message_type),
                     actual |-> Len(arg.data) ] ]

\* C7 witness: a Version payload of length 1 was refused with expected 2,
\* actual 1
C7_Witness ==
    /\ harness = "decode"
    /\ last.op = "try_from_raw"
    /\ arg.message_type = "Version"
    /\ Len(arg.data) = 1
    /\ last.res.tag = "Err"
    /\ last.res.err.kind = "InvalidLength"
    /\ last.res.err.expected = 2
    /\ last.res.err.actual = 1

-----------------------------------------------------------------------------
(* Properties of the receive loop (Spec)                                   *)

\* C4: in the receive loop the board changes only in a turn whose frame
\* decoded to a FieldUpdate; a turn that ends in an error (length error,
\* unknown type, parse error, read failure) or in another response leaves
\* the GameBoard as it was, and the loop goes on to the next frame.
C4_OnlyFieldUpdateChangesBoard ==
    [][ (harness = "main" /\ pc = "loop") =>
          /\ game_board'.board # game_board.board =>
                (last'.res.tag = "Ok" /\ last'.res.val.kind = "FieldUpdate")
          /\ ( \/ last'.res.tag = "Err"
               \/ (last'.res.tag = "Ok" /\ last'.res.val.kind # "FieldUpdate") )
             => (game_board' = game_board /\ pc' = "loop" /\ pos' >= pos)
      ]_vars

\* C4 witness: the loop took an update of square 8, then a frame that ended
\* in an error, and is still receiving with the update in place
C4_Witness ==
    /\ harness = "main"
    /\ pc = "loop"
    /\ calls >= 4
    /\ last.res.tag = "Err"
    /\ last.res.err = "Parse error"
    /\ game_board.board.board[9] = "Empty"
    /\ game_board.start = "Normal"

-----------------------------------------------------------------------------
(* Properties of the board tracker (SpecBoard, SpecClassify)               *)

\* C5: apply_move with a square index of 64 or more rejects or ignores the
\* update: it returns, it does not panic on the index.
C5_OutOfRangeIgnored ==
    ( /\ harness = "board"
      /\ last.op = "apply_move"
      /\ last.mv.grid >= 64 )
    => (last.outcome = "returned" /\ pc # "panicked")

\* C6: the classification the GameBoard holds in `start` is the
\* classification of the board it holds now.
C6_StartNeverStale ==
    (harness = "board" /\ game_board # <<>>) =>
        game_board.start = is_starting_position(game_board)

\* the layout C8 names: White on squares 0-15, Black on 48-63, both back
\* ranks Rook, Knight, Bishop, King, Queen, Bishop, Knight, Rook
NormalLayout == Layout("White", "Black", BackRankKQ)

\* C8: is_starting_position returns Normal exactly when the board is the
\* Normal layout (squares 16-47 Empty, 8-15 WhitePawn, 48-55 BlackPawn, 0-7
\* the White back rank R N B K Q B N R, 56-63 the same in Black), and
\* GameBoard::new of that layout is classified Normal.
C8_NormalExactly ==
    (harness = "classify" /\ pc = "returned") =>
        /\ is_starting_position(game_board) = "Normal"
              <=> game_board.board.board = NormalLayout
        /\ game_board.start = "Normal" <=> arg.board = NormalLayout

\* C8 witness: GameBoard::new was given the Normal layout and classified it
C8_Witness ==
    /\ harness = "classify"
    /\ pc = "returned"
    /\ arg.board = NormalLayout
    /\ game_board.start = "Normal"

\* C9 as stated: Mirror exactly when the Normal checks hold with the colours
\* swapped, both back ranks still in the order R N B K Q B N R (Black on
\* squares 0-7, White on 56-63); every other board that is not Normal is
\* None.
C9_MirrorIsColourSwap ==
    (harness = "classify" /\ pc = "returned") =>
        /\ game_board.start = "Mirror"
              <=> game_board.board.board = Layout("Black", "White", BackRankKQ)
        /\ game_board.start = "None"
              <=> game_board.board.board
                    \notin { NormalLayout, Layout("Black", "White", BackRankKQ) }

\* the layout the code calls Mirror: the Normal layout turned by 180 degrees,
\* so both back ranks read R N B Q K B N R
MirrorLayout == Layout("Black", "White", BackRankQK)

\* C9 amended: Mirror exactly when squares 16-47 are Empty, 8-15 BlackPawn,
\* 48-55 WhitePawn, squares 0-7 are R N B Q K B N R in Black and squares
\* 56-63 the same sequence in White; every board that is neither Normal nor
\* this is None.
C9_MirrorExactly ==
    (harness = "classify" /\ pc = "returned") =>
        /\ is_starting_position(game_board) = "Mirror"
              <=> game_board.board.board = MirrorLayout
        /\ is_starting_position(game_board) = "None"
              <=> game_board.board.board \notin { NormalLayout, MirrorLayout }
        /\ game_board.start = is_starting_position(game_board)

\* C9 witness: GameBoard::new classified a board as Mirror
C9_Witness ==
    /\ harness = "classify"
    /\ pc = "returned"
    /\ arg.board = MirrorLayout
    /\ game_board.start = "Mirror"

\* the Normal layout after square 8 := Empty
AfterFirstUpdate == [NormalLayout EXCEPT ![9] = "Empty"]

\* and after square 16 := WhitePawn
AfterSecondUpdate == [AfterFirstUpdate EXCEPT ![17] = "WhitePawn"]

\* C10: after any sequence of apply_move calls is_starting_position returns
\* None whenever one of squares 16-47 is not Empty; and from the Normal
\* layout, after (8, Empty) and after (8, Empty), (16, WhitePawn) it is None.
C10_EmptyCentre ==
    (harness = "board" /\ game_board # <<>>) =>
        /\ (\E g \in 16..47 : game_board.board.board[g + 1] # "Empty")
              => is_starting_position(game_board) = "None"
        /\ game_board.board.board \in { AfterFirstUpdate, AfterSecondUpdate }
              => is_starting_position(game_board) = "None"
        /\ ( /\ last.op = "is_starting_position"
             /\ \E g \in 16..47 : game_board.board.board[g + 1] # "Empty" )
              => last.res = "None"

\* C10 witness: both updates were applied to the Normal layout and the
\* classification then asked for was None
C10_Witness ==
    /\ harness = "board"
    /\ arg.board = NormalLayout
    /\ calls = 2
    /\ game_board.board.board = AfterSecondUpdate
    /\ last.op = "is_starting_position"
    /\ last.res = "None"

-----------------------------------------------------------------------------
(* Further properties of the decoder (SpecDecode)                          *)

\* the piece identity of each wire code 0x00-0x0C, in order
PieceOfCode ==
    << "Empty", "WhitePawn", "WhiteRook", "WhiteKnight", "WhiteBishop",
       "WhiteKing", "WhiteQueen", "BlackPawn", "BlackRook", "BlackKnight",
       "BlackBishop", "BlackKing", "BlackQueen" >>

\* C11: for every 2-byte FieldUpdate payload try_from_raw returns InvalidMove
\* if byte 0 >= 64 (whatever byte 1 is), otherwise InvalidPiece if byte 1 is
\* not in 0x00-0x0C, otherwise FieldUpdate(square = byte 0, piece = the
\* identity of byte 1); so every update the decoder emits has its square
\* index in 0..63.
C11_FieldUpdateDecoding ==
    ( /\ harness = "decode"
      /\ last.op = "try_from_raw"
      /\ arg.message_type = "FieldUpdate" )
    => /\ Len(arg.data) = 2 =>
            last.res =
              IF arg.data[1] >= 64
              THEN [tag |-> "Err", err |-> [kind |-> "InvalidMove"]]
              ELSE IF arg.data[2] > 12
              THEN [tag |-> "Err", err |-> [kind |-> "InvalidPiece"]]
              ELSE [ tag |-> "Ok",
                     val |-> [ kind |-> "FieldUpdate",
                               mv |-> [ grid |-> arg.data[1],
                                        piece |-> PieceOfCode[arg.data[2] + 1] ] ] ]
       /\ last.res.tag = "Ok" => last.res.val.mv.grid \in 0..63

\* C11 witness: a payload whose square index and piece byte are both out of
\* range was refused as InvalidMove
C11_Witness ==
    /\ harness = "decode"
    /\ last.op = "try_from_raw"
    /\ arg.message_type = "FieldUpdate"
    /\ arg.data = << 64, 13 >>
    /\ last.res.tag = "Err"
    /\ last.res.err.kind = "InvalidMove"

-----------------------------------------------------------------------------
(* Further properties of main (Spec)                                       *)

\* the frame a call recovered is a BoardDump of 64 bytes
IsDumpFrame(frame) ==
    /\ frame # None
    /\ frame[1].resp_type = 6
    /\ Len(frame[1].data) = 64

\* C12: a 64-byte BoardDump payload with a byte outside 0x00-0x0C is
\* rejected as a whole with InvalidPiece and builds no board; the board main
\* holds always has 64 entries, each one of the 13 piece identities, and
\* entry i of the freshly built board is the identity of payload byte i.
C12_BoardStateValid ==
    harness = "main" =>
        /\ game_board # <<>> =>
              /\ Len(game_board.board.board) = 64
              /\ \A i \in 1..64 :
                    \E c \in 1..13 : game_board.board.board[i] = PieceOfCode[c]
        /\ (calls = 1 /\ pc = "request_serial") =>
              /\ IsDumpFrame(last.frame)
              /\ \A i \in 1..64 :
                    /\ last.frame[1].data[i] <= 12
                    /\ game_board.board.board[i]
                         = PieceOfCode[last.frame[1].data[i] + 1]
        /\ ( /\ last.op = "get_response"
             /\ IsDumpFrame(last.frame)
             /\ \E i \in 1..64 : last.frame[1].data[i] > 12 ) =>
              /\ Response_try_from_raw("BoardDump", last.frame[1].data)
                   = [tag |-> "Err", err |-> [kind |-> "InvalidPiece"]]
              /\ last.res = [tag |-> "Err", err |-> "Parse error"]
              /\ calls = 1 => (game_board = <<>> /\ pc = "panicked")

\* C12 witness: the dump main asked for held one unknown byte among 63 valid
\* ones and no board was built
C12_Witness ==
    /\ harness = "main"
    /\ calls = 1
    /\ IsDumpFrame(last.frame)
    /\ last.frame[1].data[37] = 13
    /\ last.frame[1].data[1] = 2
    /\ last.res.tag = "Err"
    /\ game_board = <<>>

-----------------------------------------------------------------------------
(* Further properties of the frame reader (SpecFrame)                      *)

\* the 7-bit type codes the protocol defines
KnownTypeCodes == { 6, 13, 14, 15, 16, 17, 18, 19 }

\* C13: for every 7-bit type code other than 0x06, 0x0D-0x13,
\* MessageType::try_from_byte returns None, and a frame that carries such a
\* code makes get_response return an error at the end of that frame: no
\* Response, and the next frame is not read in its place.
C13_UnknownTypeRejected ==
    (harness = "frame" /\ last.op = "get_response") =>
        /\ (last.frame # None /\ last.frame[1].resp_type \notin KnownTypeCodes) =>
              /\ MessageType_try_from_byte(last.frame[1].resp_type) = None
              /\ last.res = [tag |-> "Err", err |-> "Invalid response type"]
        /\ \A n \in 0..(Len(stream) - last.from) :
              ( /\ GarbageThenFrame(stream, last.from, n)
                /\ stream[last.from + n + 1] - 128 \notin KnownTypeCodes )
              => /\ last.res = [tag |-> "Err", err |-> "Invalid response type"]
                 /\ last.frame = Some(FrameAt(stream, last.from + n + 1))
                 /\ pos = last.from + n
                          + TotalLengthAt(stream, last.from + n + 1)

\* C13 witness: a frame of type code 0x14 was refused and the Version frame
\* behind it is still unread
C13_Witness ==
    /\ harness = "frame"
    /\ last.op = "get_response"
    /\ last.frame # None
    /\ last.frame[1].resp_type = 20
    /\ last.res.tag = "Err"
    /\ pos = 5
    /\ Len(stream) = 10

\* the bytes of s after the first `from` are n bytes with bit 7 clear and
\* then a header: a type byte and two length bytes with bit 7 clear
GarbageThenHeader(s, from, n) ==
    /\ from + n + 3 <= Len(s)
    /\ \A i \in (from + 1)..(from + n) : s[i] < 128
    /\ s[from + n + 1] >= 128
    /\ s[from + n + 1] <= 255
    /\ s[from + n + 2] < 128
    /\ s[from + n + 3] < 128

\* C14: when the header declares total_length = (len_hi << 7) | len_lo < 3,
\* the call fails with a length error having read the garbage and the 3
\* header bytes and nothing else; when it declares 3 or more and the
\* payload is there, the call reads exactly total_length - 3 payload bytes.
C14_LengthError ==
    (harness = "frame" /\ last.op = "get_response") =>
        \A n \in 0..(Len(stream) - last.from) :
            GarbageThenHeader(stream, last.from, n) =>
                LET total == TotalLengthAt(stream, last.from + n + 1)
                IN  /\ total < 3 =>
                          /\ last.res = [ tag |-> "Err",
                                          err |-> "Invalid response length" ]
                          /\ last.frame = None
                          /\ pos = last.from + n + 3
                    /\ ( /\ total >= 3
                         /\ last.from + n + total <= Len(stream)
                         /\ \A i \in (last.from + n + 4)..(last.from + n + total) :
                               stream[i] <= 255 ) =>
                          /\ last.frame # None
                          /\ Len(last.frame[1].data) = total - 3
                          /\ pos = last.from + n + total

\* C14 witness: behind one garbage byte a header declared a total length of
\* 2; the call failed after 4 bytes, the frame behind them unread
C14_Witness ==
    /\ harness = "frame"
    /\ last.op = "get_response"
    /\ last.from = 0
    /\ GarbageThenHeader(stream, 0, 1)
    /\ TotalLengthAt(stream, 2) = 2
    /\ last.res.tag = "Err"
    /\ pos = 4
    /\ Len(stream) > 4

-----------------------------------------------------------------------------
(* Properties of the clock decoding (SpecDecode)                           *)

\* the six fields of a decoded clock reading, in the order of payload bytes
\* 0-5
ClockFields(val) ==
    << val.white_time.hours, val.white_time.minutes, val.white_time.seconds,
       val.black_time.hours, val.black_time.minutes, val.black_time.seconds >>

\* 10 * (byte >> 4) + (byte & 0x0F), in unbounded arithmetic
TensAndUnits(byte) == 10 * (byte \div 16) + (byte % 16)

\* C15 as stated: every 7-byte ClockReading payload decodes, and each of the
\* six fields equals 10 * (byte >> 4) + (byte & 0x0F) and lies in 0..99.
C15_ClockRange ==
    ( /\ harness = "decode"
      /\ last.op = "try_from_raw"
      /\ arg.message_type = "BWTime"
      /\ Len(arg.data) = 7 )
    => /\ last.res.tag = "Ok"
       /\ \A i \in 1..6 :
             /\ ClockFields(last.res.val)[i] = TensAndUnits(arg.data[i])
             /\ ClockFields(last.res.val)[i] \in 0..99

\* C15 amended: every 7-byte ClockReading payload decodes, and each of the
\* six fields equals 10 * (byte >> 4) + (byte & 0x0F), which 8 bits hold
\* without overflow: it lies in 0..165, and in 0..99 when both nibbles of the
\* byte are decimal digits (0x59 gives 59, 0x00 gives 0, 0xFF gives 165).
C15_ClockRangeBcd ==
    ( /\ harness = "decode"
      /\ last.op = "try_from_raw"
      /\ arg.message_type = "BWTime"
      /\ Len(arg.data) = 7 )
    => /\ last.res.tag = "Ok"
       /\ \A i \in 1..6 :
             LET byte == arg.data[i]
                 field == ClockFields(last.res.val)[i]
             IN  /\ field = TensAndUnits(byte)
                 /\ field \in 0..165
                 /\ (byte \div 16 <= 9 /\ byte % 16 <= 9) => field \in 0..99
                 /\ byte = 89 => field = 59
                 /\ byte = 0 => field = 0
                 /\ byte = 255 => field = 165

\* C15 witness: a payload with the bytes 0x59 and 0xFF decoded to 59 hours
\* and 165 minutes
C15_Witness ==
    /\ harness = "decode"
    /\ last.op = "try_from_raw"
    /\ arg.message_type = "BWTime"
    /\ Len(arg.data) = 7
    /\ arg.data[1] = 89
    /\ arg.data[2] = 255
    /\ last.res.tag = "Ok"
    /\ last.res.val.white_time.hours = 59
    /\ last.res.val.white_time.minutes = 165

-----------------------------------------------------------------------------
(* SpecCodec: one call of a codec function                                 *)

CodecInputs ==
    { [fn |-> f, byte |-> b, name |-> "-"] :
        f \in { "Command::try_from_byte", "RawPiece::try_from_byte" },
        b \in 0..255 }
    \cup { [fn |-> "Command::as_byte", byte |-> 0, name |-> c] : c \in Commands }
    \cup { [fn |-> "RawPiece::to_char", byte |-> 0, name |-> p] : p \in RawPieces }

InitCodec ==
    /\ harness = "codec"
    /\ pc = "call"
    /\ arg \in CodecInputs
    /\ stream = <<>>
    /\ pos = 0
    /\ written = <<>>
    /\ game_board = <<>>
    /\ last = NoCall
    /\ calls = 0

\* Command::try_from_byte(byte)
CommandDecodeCall ==
    /\ harness = "codec"
    /\ pc = "call"
    /\ arg.fn = "Command::try_from_byte"
    /\ last' = [op |-> arg.fn, res |-> Command_try_from_byte(arg.byte)]
    /\ pc' = "returned"
    /\ calls' = calls + 1
    /\ UNCHANGED <<harness, stream, pos, written, arg, game_board>>

\* cmd.as_byte(), then Command::try_from_byte of the byte it gave
CommandRoundTripCall ==
    /\ harness = "codec"
    /\ pc = "call"
    /\ arg.fn = "Command::as_byte"
    /\ LET byte == Command_as_byte(arg.name)
       IN  last' = [ op |-> arg.fn, bytes |-> byte,
                     res |-> Command_try_from_byte(byte[1]) ]
    /\ pc' = "returned"
    /\ calls' = calls + 1
    /\ UNCHANGED <<harness, stream, pos, written, arg, game_board>>

\* RawPiece::try_from_byte(byte)
PieceDecodeCall ==
    /\ harness = "codec"
    /\ pc = "call"
    /\ arg.fn = "RawPiece::try_from_byte"
    /\ last' = [op |-> arg.fn, res |-> RawPiece_try_from_byte(arg.byte)]
    /\ pc' = "returned"
    /\ calls' = calls + 1
    /\ UNCHANGED <<harness, stream, pos, written, arg, game_board>>

\* piece.to_char()
PieceToCharCall ==
    /\ harness = "codec"
    /\ pc = "call"
    /\ arg.fn = "RawPiece::to_char"
    /\ last' = [op |-> arg.fn, res |-> RawPiece_to_char(arg.name)]
    /\ pc' = "returned"
    /\ calls' = calls + 1
    /\ UNCHANGED <<harness, stream, pos, written, arg, game_board>>

NextCodec ==
    \/ CommandDecodeCall
    \/ CommandRoundTripCall
    \/ PieceDecodeCall
    \/ PieceToCharCall

SpecCodec == InitCodec /\ [][NextCodec]_vars

-----------------------------------------------------------------------------
(* Properties of the codecs (SpecCodec)                                    *)

\* the wire byte of each command
CommandWire ==
    { << "Reset", 64 >>, << "RequestClock", 65 >>, << "RequestBoard", 66 >>,
      << "EnableUpdate", 67 >>, << "RequestUpdate", 68 >>,
      << "RequestSerialNumber", 69 >>, << "RequestBusAddress", 70 >>,
      << "RequestTrademark", 71 >>, << "RequestEEMoves", 73 >>,
      << "RequestNiceUpdate", 75 >>, << "RequestVersion", 77 >> }

\* C16: for each of the 11 commands as_byte yields the wire byte listed and
\* try_from_byte of that byte gives the command back; every byte 0..255
\* that is no command's wire byte decodes to None.
C16_CommandRoundTrip ==
    (harness = "codec" /\ pc = "returned") =>
        /\ arg.fn = "Command::as_byte" =>
              /\ \E w \in CommandWire : w[1] = arg.name
              /\ \A w \in CommandWire :
                    w[1] = arg.name => last.bytes = << w[2] >>
              /\ last.res = << arg.name >>
        /\ arg.fn = "Command::try_from_byte" =>
              /\ \A w \in CommandWire : w[2] = arg.byte => last.res = << w[1] >>
              /\ (\A w \in CommandWire : w[2] # arg.byte) => last.res = <<>>

\* C16 witness: RequestBoard went out as 0x42 and came back as RequestBoard
C16_Witness ==
    /\ harness = "codec"
    /\ pc = "returned"
    /\ arg.fn = "Command::as_byte"
    /\ arg.name = "RequestBoard"
    /\ last.bytes = << 66 >>
    /\ last.res = << "RequestBoard" >>

\* the character of each piece identity, in the order of PieceOfCode
PieceChars == << " ", "P", "R", "N", "B", "K", "Q", "p", "r", "n", "b", "k", "q" >>

\* C17: RawPiece::try_from_byte succeeds for every byte 0x00-0x0C and yields
\* the identity whose wire code is that byte, returns None for every byte
\* 0x0D-0xFF, and to_char gives the 13 identities 13 pairwise distinct
\* characters: ' ', P R N B K Q for White, p r n b k q for Black.
C17_PieceCodec ==
    (harness = "codec" /\ pc = "returned") =>
        /\ arg.fn = "RawPiece::try_from_byte" =>
              /\ arg.byte <= 12 =>
                    /\ last.res = << PieceOfCode[arg.byte + 1] >>
                    /\ RawPiece_discriminant(last.res[1]) = arg.byte
              /\ arg.byte >= 13 => last.res = <<>>
        /\ arg.fn = "RawPiece::to_char" =>
              /\ \A c \in 1..13 :
                    PieceOfCode[c] = arg.name => last.res = PieceChars[c]
              /\ \A c \in 1..13 :
                    PieceOfCode[c] # arg.name =>
                        RawPiece_to_char(PieceOfCode[c]) # last.res

\* C17 witness: byte 0x0C decoded to BlackQueen
C17_Witness ==
    /\ harness = "codec"
    /\ pc = "returned"
    /\ arg.fn = "RawPiece::try_from_byte"
    /\ arg.byte = 12
    /\ last.res = << "BlackQueen" >>

-----------------------------------------------------------------------------
(* Read failures (SpecFrame): a read fails at a Timeout element of the     *)
(* stream, with bytes behind it, and at the end of the stream              *)

\* the index of the first element of s after the first `from` at which a
\* read fails: the first Timeout, or Len(s) + 1 when there is none
FirstFailure(s, from) ==
    LET at == { f \in (from + 1)..(Len(s) + 1) :
                  f = Len(s) + 1 \/ s[f] > 255 }
    IN  CHOOSE f \in at : \A g \in at : f <= g

\* the bytes of s from index k up to the failure at f are the beginning of
\* a frame and not the whole of it: nothing (the type byte is still scanned
\* for), the type byte, the type byte and the first length byte, or the
\* header and fewer than total_length - 3 payload bytes
IncompleteFrameAt(s, k, f) ==
    \/ k = f
    \/ k + 1 = f /\ s[k] >= 128
    \/ k + 2 = f /\ s[k] >= 128 /\ s[k + 1] < 128
    \/ /\ k + 3 <= f
       /\ s[k] >= 128
       /\ s[k + 1] < 128
       /\ s[k + 2] < 128
       /\ TotalLengthAt(s, k) >= 3
       /\ k + TotalLengthAt(s, k) - 1 >= f

\* C18: when a read fails during a call of get_response (while it scans
\* for a type byte, reads either length byte or reads a payload byte) the
\* call returns the read error at once: the port stands at the failed
\* read, no byte behind it has been read, the read was not tried again, and
\* no frame and no Response comes of the bytes read before it.
C18_ReadFailurePropagates ==
    (harness = "frame" /\ last.op = "get_response") =>
        LET f == FirstFailure(stream, last.from)
        IN  \A n \in 0..(f - 1 - last.from) :
                ( /\ \A i \in (last.from + 1)..(last.from + n) : stream[i] < 128
                  /\ IncompleteFrameAt(stream, last.from + n + 1, f) ) =>
                    /\ last.res = [ tag |-> "Err", err |-> "read failed" ]
                    /\ last.frame = None
                    /\ pos = IF f > Len(stream) THEN Len(stream) ELSE f

\* C18 witness: behind one garbage byte a header declared 2 payload bytes
\* and the read of the second timed out; the call gave the error with the
\* port at the failed read, the second payload byte and a whole frame
\* behind it unread
C18_Witness ==
    /\ harness = "frame"
    /\ last.op = "get_response"
    /\ last.from = 0
    /\ Len(stream) = 12
    /\ GarbageThenHeader(stream, 0, 1)
    /\ TotalLengthAt(stream, 2) = 5
    /\ FirstFailure(stream, 0) = 6
    /\ stream[6] = Timeout
    /\ WellFormedFrameAt(stream, 8)
    /\ last.res = [ tag |-> "Err", err |-> "read failed" ]
    /\ last.frame = None
    /\ pos = 6

-----------------------------------------------------------------------------
(* SpecApply: GameBoard::new, one apply_move, the same apply_move again    *)

InitApply ==
    /\ harness = "apply"
    /\ pc = "new"
    /\ arg \in StartBoards
    /\ stream = <<>>
    /\ pos = 0
    /\ written = <<>>
    /\ game_board = <<>>
    /\ last = NoCall
    /\ calls = 0

ApplyNew ==
    /\ harness = "apply"
    /\ pc = "new"
    /\ game_board' = GameBoard_new(arg)
    /\ last' = [op |-> "new"]
    /\ pc' = "ready"
    /\ UNCHANGED <<harness, stream, pos, written, arg, calls>>

\* apply_move with any grid a u8 holds and any piece
ApplyMove ==
    /\ harness = "apply"
    /\ pc = "ready"
    /\ calls = 0
    /\ \E grid \in 0..255, piece \in RawPieces :
         LET mv == [grid |-> grid, piece |-> piece]
             r == apply_move(game_board, mv)
         IN  /\ game_board' = r.game
             /\ last' = [op |-> "apply_move", mv |-> mv, outcome |-> r.outcome]
             /\ pc' = IF r.outcome = "panicked" THEN "panicked" ELSE "ready"
    /\ calls' = calls + 1
    /\ UNCHANGED <<harness, stream, pos, written, arg>>

\* apply_move with the move of the call before
ApplyRepeat ==
    /\ harness = "apply"
    /\ pc = "ready"
    /\ calls = 1
    /\ last.op = "apply_move"
    /\ LET r == apply_move(game_board, last.mv)
       IN  /\ game_board' = r.game
           /\ last' = [ op |-> "apply_move", mv |-> last.mv,
                        outcome |-> r.outcome ]
           /\ pc' = IF r.outcome = "panicked" THEN "panicked" ELSE "ready"
    /\ calls' = calls + 1
    /\ UNCHANGED <<harness, stream, pos, written, arg>>

NextApply == ApplyNew \/ ApplyMove \/ ApplyRepeat

SpecApply == InitApply /\ [][NextApply]_vars

\* C19: for every board and every update (g, p) with g in 0..63, after
\* apply_move square g holds p and each of the other 63 squares holds what
\* it held before; applying the same update a second time leaves the board
\* as the first application left it.
C19_ApplyMoveFrame ==
    [][ ( /\ harness = "apply"
          /\ pc = "ready"
          /\ last'.op = "apply_move"
          /\ last'.mv.grid <= 63 ) =>
            /\ last'.outcome = "returned"
            /\ Len(game_board'.board.board) = 64
            /\ game_board'.board.board[last'.mv.grid + 1] = last'.mv.piece
            /\ \A i \in 1..64 :
                  i # last'.mv.grid + 1 =>
                      game_board'.board.board[i] = game_board.board.board[i]
            /\ (last.op = "apply_move" /\ last.mv = last'.mv) =>
                  game_board'.board = game_board.board
      ]_vars

\* C19 witness: a pawn was put on square 28 of a starting board twice; it is
\* there, and the square it came from still holds its pawn
C19_Witness ==
    /\ harness = "apply"
    /\ pc = "ready"
    /\ calls = 2
    /\ last.op = "apply_move"
    /\ last.mv = [grid |-> 28, piece |-> "WhitePawn"]
    /\ arg.board[29] = "Empty"
    /\ game_board.board.board[29] = "WhitePawn"
    /\ arg.board[13] = "WhitePawn"
    /\ game_board.board.board[13] = "WhitePawn"

-----------------------------------------------------------------------------
(* Frame alignment across calls (SpecFrame)                                *)

\* the index of the last byte of each frame of s from index k on, when the
\* bytes from k on are well-formed frames one after the other; a -1 where
\* they are not
RECURSIVE FrameEnds(_, _)
FrameEnds(s, k) ==
    IF k = Len(s) + 1 THEN <<>>
    ELSE IF WellFormedFrameAt(s, k)
         THEN << k + TotalLengthAt(s, k) - 1 >>
                  \o FrameEnds(s, k + TotalLengthAt(s, k))
         ELSE << -1 >>

\* s is the concatenation of one or more well-formed frames
IsFrameConcat(s) ==
    /\ s # <<>>
    /\ \A i \in 1..Len(FrameEnds(s, 1)) : FrameEnds(s, 1)[i] # -1

\* where frame i of s starts: the number of bytes before it
FrameStart(s, i) == IF i = 1 THEN 0 ELSE FrameEnds(s, 1)[i - 1]

\* call number `calls` took frame number `calls` of the stream, whole: it
\* started where the frame starts, recovered its type code and payload,
\* ended at its last byte and returned
CallTookItsFrame ==
    /\ last.from = FrameStart(stream, calls)
    /\ last.frame = Some(FrameAt(stream, last.from + 1))
    /\ pos = FrameEnds(stream, 1)[calls]
    /\ last.res.tag \in { "Ok", "Err" }
    /\ last.res # [ tag |-> "Err", err |-> "read failed" ]
    /\ pc = "call"

\* C20: on a stream that is the concatenation of k well-formed frames, k
\* successive calls of get_response take the frames one per call and in
\* order, call i ending exactly at the end of frame i whatever the decoding
\* of frame i gave; payload bytes with bit 7 set are payload, never a type
\* byte.
C20_FrameAlignment ==
    ( /\ harness = "frame"
      /\ last.op = "get_response"
      /\ IsFrameConcat(stream)
      /\ calls <= Len(FrameEnds(stream, 1)) )
    => CallTookItsFrame

\* the same for the calls whose frame is not an EEMoves frame (type code
\* 0x0f): this much the code does
C20_AlignmentBarEEMoves ==
    ( /\ harness = "frame"
      /\ last.op = "get_response"
      /\ IsFrameConcat(stream)
      /\ calls <= Len(FrameEnds(stream, 1))
      /\ stream[FrameStart(stream, calls) + 1] # 143 )
    => CallTookItsFrame

\* two frames taken by two calls, the first with payload bytes 0x80 0xff
C20_TwoFramesTaken ==
    /\ harness = "frame"
    /\ last.op = "get_response"
    /\ IsFrameConcat(stream)
    /\ calls = 2
    /\ Len(FrameEnds(stream, 1)) = 2
    /\ SubSeq(stream, 4, 5) = << 128, 255 >>
    /\ CallTookItsFrame
    /\ pos = Len(stream)

-----------------------------------------------------------------------------
(* Rotation symmetry of the classification (SpecClassify)                  *)

\* the board turned 180 degrees: rot(b)[i] = b[63 - i]
Rot(b) == [i \in 1..64 |-> b[65 - i]]

\* what is_starting_position gives for the board b
ClassOf(b) == is_starting_position([board |-> [board |-> b], start |-> "None"])

\* C21: for every board b, is_starting_position of the board turned 180
\* degrees is Mirror when that of b is Normal, Normal when it is Mirror and
\* None when it is None; no board meets the conditions of Normal and of
\* Mirror together.
C21_RotationSymmetry ==
    (harness = "classify" /\ pc = "returned") =>
        /\ game_board.start = "Normal" => ClassOf(Rot(arg.board)) = "Mirror"
        /\ game_board.start = "Mirror" => ClassOf(Rot(arg.board)) = "Normal"
        /\ game_board.start = "None" => ClassOf(Rot(arg.board)) = "None"
        /\ ~ (IsNormal(arg.board) /\ IsMirror(arg.board))
        /\ [board |-> Rot(arg.board)] \in ClassifyBoards

\* C21 witness: a board classified Mirror whose rotation is the Normal
\* layout and is classified Normal
C21_Witness ==
    /\ harness = "classify"
    /\ pc = "returned"
    /\ game_board.start = "Mirror"
    /\ Rot(arg.board) = NormalLayout
    /\ ClassOf(Rot(arg.board)) = "Normal"

====
